---------------------------- MODULE Spec2Model ----------------------------
(***************************************************************************)
(* The gameplay rules of the pig game: the Update systems of main.rs,      *)
(* pigs.rs and ui.rs, run once per frame by the engine's schedule, with    *)
(* the deferred command queue applied when the schedule's systems have     *)
(* run.                                                                    *)
(*                                                                         *)
(* Units.  Time is counted in whole seconds: a frame lasts 0, 1 or more     *)
(* seconds, so that a countdown can be reached exactly, overshot, or (for  *)
(* the 2.0 s countdown) built up over several frames.                      *)
(* Money is in pounds; every amount the code uses (100.0, 10.0, 20.0) is   *)
(* an integer that f32 represents exactly.  Positions are in pixels.       *)
(*                                                                         *)
(* The repository holds two versions of the Spawner and of the sweep:      *)
(* main.rs (no Container, 2.0 s countdown) and pigs.rs (pigs are children  *)
(* of the PigParent Container, 1.0 s countdown).  variant says which App   *)
(* is running: "main" is main.rs as written, "plugin" is main.rs's         *)
(* character_movement with PigPlugin and GameUi.                           *)
(***************************************************************************)
EXTENDS Integers, Sequences, FiniteSets, TLC

VARIABLES
    variant,      \* "main" | "plugin": which App is running
    hasPlayer,    \* the world holds the Player entity
    hasParent,    \* the world holds the PigParent entity
    playerPos,    \* the Player's Transform.translation, [x, y]
    money,        \* the Money resource
    pigs,         \* entity id -> [elapsed, finished, dur, acc, pos]: the Pig entities
    children,     \* the PigParent's Children
    cmds,         \* the deferred command queue of this frame
    nextId,       \* the next entity id commands.spawn reserves
    spacePressed, \* Input<KeyCode>.pressed holds Space
    justPressed,  \* Input<KeyCode>.just_pressed holds Space
    spaceWas,     \* spacePressed as this frame began
    events,       \* the Space key events delivered as this frame began
    keys,         \* the movement keys held during this frame
    delta,        \* Time.delta() of this frame, in seconds
    inFrame,      \* the Update schedule is running
    ran,          \* the systems that have run in this frame
    runs,         \* system -> how many times it ran in this frame
    crashed,      \* a system panicked: the process is gone
    spentLogs,    \* number of "Spent £10 on a pig" lines logged
    soldLogs,     \* number of "Pig sold for £20" lines logged
    credits,      \* entity id -> how many times the sweep credited it
    despawns,     \* entity id -> how many times it was despawned
    moneyText,    \* the MoneyText label
    frame         \* frames begun, where the specification counts them

vars == <<variant, hasPlayer, hasParent, playerPos, money, pigs, children, cmds,
          nextId, spacePressed, justPressed, spaceWas, events, keys, delta,
          inFrame, ran, runs, crashed, spentLogs, soldLogs, credits,
          despawns, moneyText, frame>>

(***************************************************************************)
(* Program constants.                                                      *)
(***************************************************************************)
StartMoney == 100          \* Money::default
PigCost == 10              \* spawn_pig: money.0 >= 10.0, money.0 -= 10.0
PigPrice == 20             \* pig_lifetime: money.0 += 20.0
PigLifetime == 1           \* pigs.rs: Timer::from_seconds(1.0, TimerMode::Once)
MainPigLifetime == 2       \* main.rs: Timer::from_seconds(2.0, TimerMode::Once)
PlayerSpeed == 100         \* Player { speed: 100.0 }, pixels a second

(***************************************************************************)
(* Bounds of the model.                                                    *)
(***************************************************************************)
MaxDelta == 2              \* a frame lasts 0..MaxDelta seconds
MaxSpawns == 11            \* Space presses stop once this many pigs were bought
MoveSpawns == 1            \* the same, in the specification with movement
MoveFrames == 2            \* frames of the specification with movement
LiveSpawns == 2            \* pigs bought in the specification with a fair frame driver

MoveKeys == {"W", "A", "S", "D"}

\* What the keyboard can deliver for Space between two frames.
SpaceEvents ==
    { <<>>, <<"press">>, <<"release">>, <<"release", "press">>,
      <<"press", "release">> }

\* The same, where the movement keys are followed: Space is left as it is,
\* or let go of and pressed afresh.
MoveSpaceEvents == { <<>>, <<"release", "press">> }

FrameSystems(v) ==
    IF v = "main"
    THEN {"character_movement", "main_spawn_pig", "main_pig_lifetime"}
    ELSE {"character_movement", "spawn_pig", "pig_lifetime", "update_money_ui"}

AllSystems == FrameSystems("main") \cup FrameSystems("plugin")

(***************************************************************************)
(* Input<KeyCode> for Space: press inserts into just_pressed only when the *)
(* key was not already pressed (a key repeat changes nothing), release     *)
(* removes it from pressed, and just_pressed is cleared as a frame begins. *)
(***************************************************************************)
InputEvent(inp, ev) ==
    IF ev = "press"
    THEN [pressed |-> TRUE, just |-> inp.just \/ ~inp.pressed]
    ELSE [pressed |-> FALSE, just |-> inp.just]

RECURSIVE InputEvents(_, _)
InputEvents(inp, evs) ==
    IF evs = <<>> THEN inp
    ELSE InputEvents(InputEvent(inp, Head(evs)), Tail(evs))

\* A timer that finishes only once its elapsed time exceeds the duration.
TimerTickStrict(t, d, dur) ==
    IF t.finished THEN t
    ELSE [elapsed  |-> IF t.elapsed + d > dur THEN dur ELSE t.elapsed + d,
          finished |-> t.elapsed + d > dur]

\* Timer::tick on a TimerMode::Once timer of duration dur, then finished().
TimerTick(t, d, dur) ==
    IF t.finished THEN t
    ELSE [elapsed  |-> IF t.elapsed + d >= dur THEN dur ELSE t.elapsed + d,
          finished |-> t.elapsed + d >= dur]

NewTimer == [elapsed |-> 0, finished |-> FALSE]

\* The ids of a set in increasing order: the order the query yields them.
RECURSIVE SetToSeq(_)
SetToSeq(S) ==
    IF S = {} THEN <<>>
    ELSE LET m == CHOOSE x \in S : \A y \in S : x <= y
         IN <<m>> \o SetToSeq(S \ {m})

\* A sweep that forgets to despawn the pigs it sold.
RECURSIVE ExpiryCmdsNoDespawn(_, _)
ExpiryCmdsNoDespawn(ids, withParent) ==
    IF ids = <<>> THEN <<>>
    ELSE (IF withParent
          THEN << [op |-> "remove_children", id |-> Head(ids)] >>
          ELSE <<>>)
         \o ExpiryCmdsNoDespawn(Tail(ids), withParent)

\* A sweep that despawns a pig without removing it from its parent.
RECURSIVE ExpiryCmdsNoRemove(_, _)
ExpiryCmdsNoRemove(ids, withParent) ==
    IF ids = <<>> THEN <<>>
    ELSE << [op |-> "despawn", id |-> Head(ids)] >>
         \o ExpiryCmdsNoRemove(Tail(ids), withParent)

\* The commands the sweep queues for the pigs that finished, pig by pig:
\* remove_children(&[pig_entity]) where there is a parent, then despawn().
RECURSIVE ExpiryCmds(_, _)
ExpiryCmds(ids, withParent) ==
    IF ids = <<>> THEN <<>>
    ELSE (IF withParent
          THEN << [op |-> "remove_children", id |-> Head(ids)],
                  [op |-> "despawn", id |-> Head(ids)] >>
          ELSE << [op |-> "despawn", id |-> Head(ids)] >>)
         \o ExpiryCmds(Tail(ids), withParent)

(***************************************************************************)
(* The world after the Startup schedule.  setup spawns the Player and      *)
(* spawn_pig_parent the Container; whether each is there depends on which  *)
(* startup systems the App registered, so both cases are initial states.   *)
(***************************************************************************)
Init ==
    /\ variant \in {"main", "plugin"}
    /\ hasPlayer \in BOOLEAN
    /\ hasParent \in (IF variant = "main" THEN {FALSE} ELSE BOOLEAN)
    /\ playerPos = [x |-> 0, y |-> 0]
    /\ money = StartMoney
    /\ pigs = <<>>
    /\ children = {}
    /\ cmds = <<>>
    /\ nextId = 1
    /\ spacePressed = FALSE
    /\ justPressed = FALSE
    /\ spaceWas = FALSE
    /\ events = <<>>
    /\ keys = {}
    /\ delta = 0
    /\ inFrame = FALSE
    /\ ran = {}
    /\ runs = [s \in AllSystems |-> 0]
    /\ crashed = FALSE
    /\ spentLogs = 0
    /\ soldLogs = 0
    /\ credits = <<>>
    /\ despawns = <<>>
    /\ moneyText = <<"Money!">>
    /\ frame = 0

Mark(sys) ==
    /\ ran' = ran \cup {sys}
    /\ runs' = [runs EXCEPT ![sys] = @ + 1]

Runnable(sys) ==
    /\ inFrame
    /\ ~crashed
    /\ sys \in FrameSystems(variant)
    /\ sys \notin ran

\* A system panicked: the process terminates, nothing it queued is applied.
Panic(sys) ==
    /\ crashed' = TRUE
    /\ Mark(sys)

(***************************************************************************)
(* The engine's work before Update: Time is advanced and the keyboard      *)
(* events received since the last frame are folded into Input<KeyCode>.    *)
(***************************************************************************)
BeginFrameWith(keySets, evSets, spawnCap, counted, frameCap) ==
    /\ ~inFrame
    /\ ~crashed
    /\ counted => frame < frameCap
    /\ \E d \in 0..MaxDelta, evs \in evSets, ks \in keySets :
          LET inp == InputEvents([pressed |-> spacePressed, just |-> FALSE], evs)
          IN /\ inp.just => spentLogs < spawnCap
             /\ delta' = d
             /\ events' = evs
             /\ keys' = ks
             /\ spaceWas' = spacePressed
             /\ spacePressed' = inp.pressed
             /\ justPressed' = inp.just
    /\ frame' = IF counted THEN frame + 1 ELSE frame
    /\ inFrame' = TRUE
    /\ ran' = {}
    /\ runs' = [s \in AllSystems |-> 0]
    /\ UNCHANGED <<variant, hasPlayer, hasParent, playerPos, money, pigs, children,
                   cmds, nextId, crashed, spentLogs, soldLogs, credits, despawns,
                   moneyText>>

\* Frames without end, no movement key held.
BeginFrame == BeginFrameWith({{}}, SpaceEvents, MaxSpawns, FALSE, 0)

\* The first frames of a run, any movement keys held.
BeginMoveFrame ==
    BeginFrameWith(SUBSET MoveKeys, MoveSpaceEvents, MoveSpawns, TRUE, MoveFrames)

(***************************************************************************)
(* main.rs character_movement.                                             *)
(***************************************************************************)
\* A controller with the vertical keys the wrong way round.
MoveStepSwapped(pos, ks, d) ==
    LET movement_speed == PlayerSpeed * d
        y1 == IF "W" \in ks THEN pos.y - movement_speed ELSE pos.y
        y2 == IF "S" \in ks THEN y1 + movement_speed ELSE y1
        x1 == IF "A" \in ks THEN pos.x - movement_speed ELSE pos.x
        x2 == IF "D" \in ks THEN x1 + movement_speed ELSE x1
    IN [x |-> x2, y |-> y2]

MoveStep(pos, ks, d) ==
    LET movement_speed == PlayerSpeed * d
        y1 == IF "W" \in ks THEN pos.y + movement_speed ELSE pos.y
        y2 == IF "S" \in ks THEN y1 - movement_speed ELSE y1
        x1 == IF "A" \in ks THEN pos.x - movement_speed ELSE pos.x
        x2 == IF "D" \in ks THEN x1 + movement_speed ELSE x1
    IN [x |-> x2, y |-> y2]

character_movement ==
    /\ Runnable("character_movement")
    /\ playerPos' = IF hasPlayer THEN MoveStep(playerPos, keys, delta) ELSE playerPos
    /\ Mark("character_movement")
    /\ UNCHANGED <<variant, hasPlayer, hasParent, money, pigs, children, cmds, nextId,
                   spacePressed, justPressed, spaceWas, events, keys, delta, inFrame,
                   crashed, spentLogs, soldLogs, credits, despawns, moneyText, frame>>

(***************************************************************************)
(* spawn_pig.  commands.spawn reserves the entity id at once; the bundle   *)
(* is inserted, and the child pushed, when the queue is applied.           *)
(***************************************************************************)
SpawnCmds(id, pos, dur, withParent) ==
    IF withParent
    THEN << [op |-> "spawn", id |-> id, pos |-> pos, dur |-> dur],
            [op |-> "push_children", id |-> id] >>
    ELSE << [op |-> "spawn", id |-> id, pos |-> pos, dur |-> dur] >>

\* A Spawner that polls input.pressed instead.
SpaceHeld == spacePressed

\* input.just_pressed(KeyCode::Space)
SpaceJustPressed == justPressed

\* A Spawner that does not look for the Player.
SingleFailsParentOnly(needParent) == needParent /\ ~hasParent

\* player.single() / parent.single() panic unless exactly one entity matches.
SingleFails(needParent) == ~hasPlayer \/ (needParent /\ ~hasParent)

\* A Spawner that only checks that the balance is not negative.
CanAffordAnything(m) == m >= 0

\* money.0 >= 10.0
CanAfford(m) == m >= PigCost

\* A Spawner that debits the sale price on top of the cost.
DebitWrongAmount(m) == m - PigCost - PigPrice

\* money.0 -= 10.0
Debit(m) == m - PigCost

SpawnBody(sys, needParent, dur) ==
    IF ~SpaceJustPressed
    THEN /\ Mark(sys)
         /\ UNCHANGED <<money, cmds, nextId, crashed, spentLogs>>
    ELSE IF SingleFails(needParent)
    THEN /\ Panic(sys)
         /\ UNCHANGED <<money, cmds, nextId, spentLogs>>
    ELSE IF CanAfford(money)
    THEN /\ money' = Debit(money)
         /\ spentLogs' = spentLogs + 1
         /\ cmds' = cmds \o SpawnCmds(nextId, playerPos, dur, needParent)
         /\ nextId' = nextId + 1
         /\ Mark(sys)
         /\ UNCHANGED crashed
    ELSE /\ Mark(sys)
         /\ UNCHANGED <<money, cmds, nextId, crashed, spentLogs>>

spawn_pig ==
    /\ Runnable("spawn_pig")
    /\ SpawnBody("spawn_pig", TRUE, PigLifetime)
    /\ UNCHANGED <<variant, hasPlayer, hasParent, playerPos, pigs, children,
                   spacePressed, justPressed, spaceWas, events, keys, delta, inFrame,
                   soldLogs, credits, despawns, moneyText, frame>>

main_spawn_pig ==
    /\ Runnable("main_spawn_pig")
    /\ SpawnBody("main_spawn_pig", FALSE, MainPigLifetime)
    /\ UNCHANGED <<variant, hasPlayer, hasParent, playerPos, pigs, children,
                   spacePressed, justPressed, spaceWas, events, keys, delta, inFrame,
                   soldLogs, credits, despawns, moneyText, frame>>

(***************************************************************************)
(* pig_lifetime: every entity with a Pig is ticked; each one whose timer   *)
(* is finished is credited and queued for removal and despawn.             *)
(***************************************************************************)
\* A sweep that credits once however many pigs finished.
CreditOnce(m, n) == IF n > 0 THEN m + PigPrice ELSE m

\* money.0 += 20.0, once for each pig whose timer is finished
Credit(m, n) == m + PigPrice * n

\* A sweep that never ticks the timers.
TickPigForgotten(p, d) == p

TickPig(p, d) ==
    LET t == TimerTick([elapsed |-> p.elapsed, finished |-> p.finished], d, p.dur)
    IN [p EXCEPT !.elapsed = t.elapsed, !.finished = t.finished,
                 !.acc = @ + d]

SweepBody(sys, needParent) ==
    IF needParent /\ ~hasParent      \* parent.single()
    THEN /\ Panic(sys)
         /\ UNCHANGED <<money, pigs, cmds, soldLogs, credits>>
    ELSE LET ticked == [id \in DOMAIN pigs |-> TickPig(pigs[id], delta)]
             done == {id \in DOMAIN ticked : ticked[id].finished}
         IN /\ pigs' = ticked
            /\ money' = Credit(money, Cardinality(done))
            /\ soldLogs' = soldLogs + Cardinality(done)
            /\ credits' = [id \in DOMAIN credits |->
                              IF id \in done THEN credits[id] + 1 ELSE credits[id]]
            /\ cmds' = cmds \o ExpiryCmds(SetToSeq(done), needParent)
            /\ Mark(sys)
            /\ UNCHANGED crashed

pig_lifetime ==
    /\ Runnable("pig_lifetime")
    /\ SweepBody("pig_lifetime", TRUE)
    /\ UNCHANGED <<variant, hasPlayer, hasParent, playerPos, children, nextId,
                   spacePressed, justPressed, spaceWas, events, keys, delta, inFrame,
                   spentLogs, despawns, moneyText, frame>>

main_pig_lifetime ==
    /\ Runnable("main_pig_lifetime")
    /\ SweepBody("main_pig_lifetime", FALSE)
    /\ UNCHANGED <<variant, hasPlayer, hasParent, playerPos, children, nextId,
                   spacePressed, justPressed, spaceWas, events, keys, delta, inFrame,
                   spentLogs, despawns, moneyText, frame>>

(***************************************************************************)
(* ui.rs update_money_ui: format!("Money: £{:?}", money.0).                *)
(***************************************************************************)
FormatMoney(m) == <<"Money: £", m, ".0">>

update_money_ui ==
    /\ Runnable("update_money_ui")
    /\ moneyText' = FormatMoney(money)
    /\ Mark("update_money_ui")
    /\ UNCHANGED <<variant, hasPlayer, hasParent, playerPos, money, pigs, children,
                   cmds, nextId, spacePressed, justPressed, spaceWas, events, keys,
                   delta, inFrame, crashed, spentLogs, soldLogs, credits, despawns,
                   frame>>

(***************************************************************************)
(* The end of the Update schedule: the queued commands take effect, in the *)
(* order they were queued.  The frame's inputs (the key events, the held   *)
(* movement keys, the delta) are dropped here: nothing reads them before   *)
(* the engine replaces them as the next frame begins.                      *)
(***************************************************************************)
\* A queue applied at once, ahead of the sweep: the pig it inserts is ticked
\* with the delta of the frame that bought it.
ApplyCommandSeenBySweep(w, c) ==
    CASE c.op = "spawn" ->
           [w EXCEPT !.pigs = [id \in DOMAIN w.pigs \cup {c.id} |->
                                  IF id = c.id
                                  THEN TickPig([elapsed |-> NewTimer.elapsed,
                                                finished |-> NewTimer.finished,
                                                dur |-> c.dur, acc |-> 0,
                                                pos |-> c.pos], delta)
                                  ELSE w.pigs[id]],
                     !.credits = [id \in DOMAIN w.credits \cup {c.id} |->
                                  IF id = c.id THEN 0 ELSE w.credits[id]],
                     !.despawns = [id \in DOMAIN w.despawns \cup {c.id} |->
                                  IF id = c.id THEN 0 ELSE w.despawns[id]]]
      [] c.op = "push_children" ->
           [w EXCEPT !.children = @ \cup {c.id}]
      [] c.op = "remove_children" ->
           [w EXCEPT !.children = @ \ {c.id}]
      [] c.op = "despawn" ->
           IF c.id \in DOMAIN w.pigs
           THEN [w EXCEPT !.pigs = [id \in DOMAIN w.pigs \ {c.id} |-> w.pigs[id]],
                          !.despawns[c.id] = @ + 1]
           ELSE w

\* w is the world: [pigs, children, credits, despawns].
ApplyCommand(w, c) ==
    CASE c.op = "spawn" ->
           [w EXCEPT !.pigs = [id \in DOMAIN w.pigs \cup {c.id} |->
                                  IF id = c.id
                                  THEN [elapsed |-> NewTimer.elapsed,
                                        finished |-> NewTimer.finished,
                                        dur |-> c.dur, acc |-> 0, pos |-> c.pos]
                                  ELSE w.pigs[id]],
                     !.credits = [id \in DOMAIN w.credits \cup {c.id} |->
                                  IF id = c.id THEN 0 ELSE w.credits[id]],
                     !.despawns = [id \in DOMAIN w.despawns \cup {c.id} |->
                                  IF id = c.id THEN 0 ELSE w.despawns[id]]]
      [] c.op = "push_children" ->
           [w EXCEPT !.children = @ \cup {c.id}]
      [] c.op = "remove_children" ->
           [w EXCEPT !.children = @ \ {c.id}]
      [] c.op = "despawn" ->
           IF c.id \in DOMAIN w.pigs
           THEN [w EXCEPT !.pigs = [id \in DOMAIN w.pigs \ {c.id} |-> w.pigs[id]],
                          !.despawns[c.id] = @ + 1]
           ELSE w

RECURSIVE ApplyCommands(_, _)
ApplyCommands(w, cs) ==
    IF cs = <<>> THEN w ELSE ApplyCommands(ApplyCommand(w, Head(cs)), Tail(cs))

\* A schedule that ends as soon as one system has run.
SomeRan == ran # {}

\* Every system of the schedule has run.
AllRan == ran = FrameSystems(variant)

apply_deferred ==
    /\ inFrame
    /\ ~crashed
    /\ AllRan
    /\ LET w == ApplyCommands([pigs |-> pigs, children |-> children,
                               credits |-> credits, despawns |-> despawns], cmds)
       IN /\ pigs' = w.pigs
          /\ children' = w.children
          /\ credits' = w.credits
          /\ despawns' = w.despawns
    /\ cmds' = <<>>
    /\ inFrame' = FALSE
    /\ justPressed' = FALSE
    /\ spaceWas' = spacePressed
    /\ events' = <<>>
    /\ keys' = {}
    /\ delta' = 0
    /\ UNCHANGED <<variant, hasPlayer, hasParent, playerPos, money, nextId,
                   spacePressed, ran, runs, crashed, spentLogs, soldLogs, moneyText,
                   frame>>

Systems ==
    \/ character_movement
    \/ spawn_pig
    \/ pig_lifetime
    \/ main_spawn_pig
    \/ main_pig_lifetime
    \/ update_money_ui
    \/ apply_deferred

Next == BeginFrame \/ Systems

Spec == Init /\ [][Next]_vars

(***************************************************************************)
(* The first frames of the App with PigPlugin and GameUi, the Player and   *)
(* the Container in place, with the movement keys followed.                *)
(***************************************************************************)
InitMove ==
    /\ Init
    /\ variant = "plugin"
    /\ hasPlayer
    /\ hasParent

NextMove ==
    \/ BeginMoveFrame
    \/ character_movement
    \/ spawn_pig
    \/ pig_lifetime
    \/ update_money_ui
    \/ apply_deferred

SpecMove == InitMove /\ [][NextMove]_vars

(***************************************************************************)
(* The App under a fair frame driver.  The schedule runs every system of a *)
(* frame and applies the queue (weak fairness: while a frame is running    *)
(* some step of the schedule is due), and time passes: again and again a   *)
(* frame begins with a positive delta (strong fairness, as a frame can     *)
(* begin only between frames, and may begin with delta 0).                 *)
(***************************************************************************)
BeginLiveFrame == BeginFrameWith({{}}, SpaceEvents, LiveSpawns, FALSE, 0)

NextLive == BeginLiveFrame \/ Systems

Fairness ==
    /\ WF_vars(Systems)
    /\ SF_vars(BeginLiveFrame /\ delta' > 0)

SpecLive == Init /\ [][NextLive]_vars /\ Fairness


(***************************************************************************)
(* Vocabulary of the properties.                                           *)
(***************************************************************************)
Spawners == {"spawn_pig", "main_spawn_pig"}

Sweeps == {"pig_lifetime", "main_pig_lifetime"}

SpawnerStep == \E s \in Spawners : s \notin ran /\ s \in ran'

SweepStep == \E s \in Sweeps : s \notin ran /\ s \in ran'

\* The step that ends a frame: the queued commands are applied.
ApplyStep == inFrame /\ ~inFrame'

ControllerStep == "character_movement" \notin ran /\ "character_movement" \in ran'

SpawnerRan == ran \cap Spawners # {}

SweepRan == ran \cap Sweeps # {}

\* The Player is there, and the Container where the Spawner uses one.
Present == hasPlayer /\ (variant = "plugin" => hasParent)

QueuedSpawns(q) == Cardinality({i \in DOMAIN q : q[i].op = "spawn"})

DespawnQueued(id) == \E i \in DOMAIN cmds : cmds[i].op = "despawn" /\ cmds[i].id = id

Released == \E i \in DOMAIN events : events[i] = "release"

Live == DOMAIN pigs

\* 1 when movement key k is held in this frame, else 0.
Held(k) == IF k \in keys THEN 1 ELSE 0

(***************************************************************************)
(* C1.  The balance is never negative: the Spawner debits 10 only after    *)
(* checking that the balance is at least 10, and the sweep only credits.   *)
(***************************************************************************)
C1_BalanceNeverNegative == money >= 0

\* The tenth pig was bought with the last 10 pounds.
C1_Witness ==
    /\ money = 0
    /\ spentLogs = 10
    /\ SpawnerRan
    /\ QueuedSpawns(cmds) = 1

(***************************************************************************)
(* C2.  With Player and Container present, a run of the Spawner queues a   *)
(* pig if and only if Space was just pressed in this frame and the balance *)
(* before it ran was at least 10; it then debits exactly 10, once, and     *)
(* queues exactly one pig; a key held from the frame before, with no       *)
(* release since, never spawns.                                            *)
(***************************************************************************)
C2_SpawnIffEdgeAndFunds ==
    [][ (SpawnerStep /\ Present) =>
          LET made == QueuedSpawns(cmds') - QueuedSpawns(cmds)
          IN /\ made = IF justPressed /\ money >= PigCost THEN 1 ELSE 0
             /\ money' = IF made = 1 THEN money - PigCost ELSE money
             /\ nextId' = nextId + made
             /\ spentLogs' = spentLogs + made
             /\ made = 1 => ~(spaceWas /\ ~Released)
             /\ \A s \in Spawners : runs[s] = 0 ]_vars

\* Space is held from the frame in which it bought a pig; the key repeats,
\* the Spawner has run with money to spare, and nothing was queued.
C2_Witness ==
    /\ inFrame
    /\ Present
    /\ spaceWas
    /\ events = <<"press">>
    /\ SpawnerRan
    /\ spentLogs = 1
    /\ money >= PigCost
    /\ QueuedSpawns(cmds) = 0

(***************************************************************************)
(* C3.  Every pig is credited at most once and despawned at most once; a   *)
(* pig still in the world was never despawned, and was credited only if    *)
(* its timer finished in the frame now running, with its despawn queued;   *)
(* a pig no longer in the world was credited once and despawned once, so   *)
(* no later sweep sees it.                                                 *)
(***************************************************************************)
C3_OneCreditOneDespawn ==
    /\ DOMAIN despawns = DOMAIN credits
    /\ Live \subseteq DOMAIN credits
    /\ \A id \in DOMAIN credits :
          /\ credits[id] <= 1
          /\ despawns[id] <= 1
          /\ id \in Live =>
                /\ despawns[id] = 0
                /\ credits[id] = (IF pigs[id].finished THEN 1 ELSE 0)
                /\ pigs[id].finished => inFrame /\ SweepRan /\ DespawnQueued(id)
          /\ id \notin Live => credits[id] = 1 /\ despawns[id] = 1

\* A pig has expired and gone, and a later frame's sweep has run with
\* another pig alive.
C3_Witness ==
    /\ inFrame
    /\ SweepRan
    /\ delta > 0
    /\ \E id \in DOMAIN credits : id \notin Live /\ credits[id] = 1 /\ despawns[id] = 1
    /\ Live # {}

(***************************************************************************)
(* C4.  With the Container, its children are exactly the live pigs, and a  *)
(* pig's despawn is always queued after its removal from the Container.    *)
(***************************************************************************)
C4_ChildrenAreLivePigs ==
    variant = "plugin" =>
        /\ children = Live
        /\ \A j \in DOMAIN cmds :
              cmds[j].op = "despawn" =>
                 \E i \in 1..(j - 1) :
                    cmds[i].op = "remove_children" /\ cmds[i].id = cmds[j].id

\* Between frames: one pig has been removed and despawned, others live on.
C4_Witness ==
    /\ variant = "plugin"
    /\ ~inFrame
    /\ children # {}
    /\ \E id \in DOMAIN despawns : despawns[id] = 1 /\ id \notin children

(***************************************************************************)
(* C5.  With Player and Container present, Space just pressed and the      *)
(* balance below 10, the Spawner changes nothing: no command queued, no    *)
(* entity id taken, no log line, the balance, the pigs, the Container and  *)
(* the player position as they were.                                       *)
(***************************************************************************)
C5_PoorSpawnerIsNoOp ==
    [][ (SpawnerStep /\ Present /\ justPressed /\ money < PigCost) =>
          UNCHANGED <<money, pigs, children, cmds, nextId, playerPos, spentLogs,
                      soldLogs, credits, despawns, crashed, moneyText>> ]_vars

\* The Spawner has run on a press with no money and ten pigs alive.
C5_Witness ==
    /\ inFrame
    /\ Present
    /\ justPressed
    /\ money < PigCost
    /\ SpawnerRan
    /\ ~crashed
    /\ Cardinality(Live) = 10
    /\ cmds = <<>>

(***************************************************************************)
(* C6.  As claimed: whenever the Spawner has run with no Player, or with   *)
(* no Container where it uses one, the process has terminated.             *)
(***************************************************************************)
C6_Original ==
    (SpawnerRan /\ ~Present) => crashed

(***************************************************************************)
(* C6, amended.  The Spawner returns before it looks for the Player and    *)
(* the Container unless Space was just pressed.  When it runs on a press   *)
(* with no Player, or no Container where it uses one, the process          *)
(* terminates with no debit, no entity id taken and no command queued;     *)
(* when it runs without a press it terminates nothing; and no step is ever *)
(* taken once the process has terminated.                                  *)
(***************************************************************************)
C6_FatalOnlyOnPress ==
    [][ /\ ~crashed
        /\ (SpawnerStep /\ ~Present /\ justPressed) =>
              /\ crashed'
              /\ UNCHANGED <<money, cmds, nextId, pigs, children, spentLogs>>
        /\ (SpawnerStep /\ ~justPressed) => ~crashed' ]_vars

\* pigs.rs with its Container and no Player: Space was just pressed and the
\* Spawner's player.single() ended the process, the balance untouched.
C6_Witness ==
    /\ variant = "plugin"
    /\ hasParent
    /\ ~hasPlayer
    /\ justPressed
    /\ "spawn_pig" \in ran
    /\ crashed
    /\ money = StartMoney
    /\ cmds = <<>>

(***************************************************************************)
(* C7.  Between frames the balance is 100 - 10 * spawns + 20 * expiries    *)
(* and the live pigs number spawns - expiries, counting spawns and         *)
(* expiries by their log lines; so three spawns and no expiry leave 70 and *)
(* three pigs, and three spawns and three expiries leave 130 and no pig.   *)
(***************************************************************************)
C7_BalanceEquation ==
    ~inFrame =>
        /\ money = StartMoney - PigCost * spentLogs + PigPrice * soldLogs
        /\ Cardinality(Live) = spentLogs - soldLogs
        /\ (spentLogs = 3 /\ soldLogs = 0) => (money = 70 /\ Cardinality(Live) = 3)
        /\ (spentLogs = 3 /\ soldLogs = 3) => (money = 130 /\ Live = {})

\* Three pigs bought and sold: 130 pounds, no pig, three sale log lines.
C7_Witness ==
    /\ ~inFrame
    /\ spentLogs = 3
    /\ soldLogs = 3
    /\ money = 130
    /\ Live = {}

(***************************************************************************)
(* C8.  As claimed: within a frame the systems run in the fixed order      *)
(* Player Controller, Spawner, sweep, Status Display.                      *)
(***************************************************************************)
C8_Original ==
    /\ SpawnerRan => "character_movement" \in ran
    /\ SweepRan => SpawnerRan
    /\ "update_money_ui" \in ran => SweepRan

(***************************************************************************)
(* C8, amended.  In every frame each system of the App runs exactly once   *)
(* (a frame ends only when all of them have run, none runs twice, and no   *)
(* system of the other App runs); the order among them is not fixed.       *)
(***************************************************************************)
C8_EachSystemOncePerFrame ==
    /\ ran \subseteq FrameSystems(variant)
    /\ \A s \in AllSystems : runs[s] = (IF s \in ran THEN 1 ELSE 0)
    /\ ~inFrame => (ran = {} \/ ran = FrameSystems(variant))
    /\ (~inFrame /\ ran = {}) => (spentLogs = 0 /\ nextId = 1 /\ money = StartMoney)

\* The frame began with no money and ten pigs; the sweep has run first and
\* sold them all, the Spawner has then bought a pig with that money, and
\* neither the Player Controller nor the Status Display has run yet.
C8_Witness ==
    /\ variant = "plugin"
    /\ inFrame
    /\ ran = {"pig_lifetime", "spawn_pig"}
    /\ \A id \in Live : pigs[id].finished
    /\ soldLogs = 10
    /\ spentLogs = 11
    /\ money = 190
    /\ cmds[1].op = "remove_children"
    /\ cmds[Len(cmds)].op = "push_children"

(***************************************************************************)
(* C9.  A run of the Player Controller moves the Player by speed * delta   *)
(* for each held key (W +y, S -y, A -x, D +x), each key on its own, so     *)
(* that two orthogonal keys move both axes by the full step, opposite keys *)
(* cancel and no key leaves the position as it was; it changes neither the *)
(* balance, nor any pig, nor the Container, nor the command queue.         *)
(***************************************************************************)
C9_ControllerMovesOnlyPlayer ==
    [][ ControllerStep =>
          LET step == PlayerSpeed * delta
          IN /\ hasPlayer =>
                   /\ playerPos'.x - playerPos.x = step * (Held("D") - Held("A"))
                   /\ playerPos'.y - playerPos.y = step * (Held("W") - Held("S"))
             /\ ~hasPlayer => playerPos' = playerPos
             /\ keys = {} => playerPos' = playerPos
             /\ UNCHANGED <<money, pigs, children, cmds, nextId, spentLogs, soldLogs,
                            credits, despawns, crashed>> ]_vars

\* W and D held for a frame of two seconds, a pig standing where it was bought.
C9_Witness ==
    /\ inFrame
    /\ hasPlayer
    /\ "character_movement" \in ran
    /\ keys = {"W", "D"}
    /\ delta = 2
    /\ playerPos = [x |-> 2 * PlayerSpeed, y |-> 2 * PlayerSpeed]
    /\ \E id \in Live : pigs[id].pos = [x |-> 0, y |-> 0]

(***************************************************************************)
(* C10.  A pig's timer is finished exactly when the deltas ticked into it  *)
(* sum to at least its duration; a finished pig is credited and queued for *)
(* despawn in the very sweep that took the sum there (before that sweep    *)
(* the sum was below the duration), and an unfinished pig is neither       *)
(* credited nor queued.                                                    *)
(***************************************************************************)
C10_ExpiresAtFirstSweepReachingDuration ==
    \A id \in Live :
        LET p == pigs[id]
        IN /\ p.finished <=> p.acc >= p.dur
           /\ p.finished =>
                 /\ inFrame
                 /\ SweepRan
                 /\ p.acc - delta < p.dur
                 /\ credits[id] = 1
                 /\ DespawnQueued(id)
           /\ ~p.finished => credits[id] = 0 /\ ~DespawnQueued(id)

\* A countdown built up over several sweeps and overshot by the last one.
C10_Witness ==
    \E id \in Live :
        /\ pigs[id].finished
        /\ pigs[id].acc > pigs[id].dur
        /\ pigs[id].acc - delta > 0
        /\ credits[id] = 1

(***************************************************************************)
(* C11.  Under a fair frame driver every pig the Spawner has bought (its   *)
(* entity id reserved and its spawn queued or applied) is eventually       *)
(* credited once and despawned once, and from some moment on no pig is     *)
(* alive: the pigs bought are finitely many, so spawning stops.            *)
(***************************************************************************)
C11_EveryPigEventuallySold ==
    /\ \A id \in 1..LiveSpawns :
          (id < nextId) ~>
             (/\ id \in DOMAIN despawns
              /\ id \notin Live
              /\ despawns[id] = 1
              /\ credits[id] = 1)
    /\ <>[](Live = {} /\ QueuedSpawns(cmds) = 0)

\* Between frames, every pig the budget allows was bought and sold.
C11_Witness ==
    /\ ~inFrame
    /\ ~crashed
    /\ spentLogs = LiveSpawns
    /\ soldLogs = LiveSpawns
    /\ Live = {}
    /\ \A id \in 1..LiveSpawns :
          id \in DOMAIN despawns /\ despawns[id] = 1 /\ credits[id] = 1

(***************************************************************************)
(* C12.  Entities are created and destroyed only when the queue is applied *)
(* at the end of a frame, and the balance changes in the step of the       *)
(* system itself.  The Spawner's step that buys a pig debits 10 and leaves *)
(* the pigs as they are.  The sweep's step ticks exactly the pigs that     *)
(* were alive as the frame began, each with this frame's delta, credits 20 *)
(* for each one it finds finished, and neither sees nor credits a pig      *)
(* whose spawn is queued.  The live pigs change only in the step that      *)
(* applies the queue, which leaves the balance alone: a pig entering there *)
(* has an id never seen before and an untouched timer, whatever this       *)
(* frame's delta, so its first tick is the next frame's; a pig leaving     *)
(* there was finished and credited once in this frame, and a despawned id  *)
(* is never alive again.                                                   *)
(***************************************************************************)
C12_CommandsDeferredBalanceImmediate ==
    [][
        /\ (SpawnerStep /\ nextId' # nextId) =>
              /\ money' = money - PigCost
              /\ pigs' = pigs
              /\ nextId \notin Live'
              /\ nextId \notin DOMAIN credits'
              /\ QueuedSpawns(cmds') = QueuedSpawns(cmds) + 1
        /\ SweepStep =>
              /\ Live' = Live
              /\ \A id \in Live : pigs'[id].acc = pigs[id].acc + delta
              /\ money' = money
                          + PigPrice * Cardinality({id \in Live : pigs'[id].finished})
              /\ \A i \in DOMAIN cmds :
                    cmds[i].op = "spawn" =>
                       /\ cmds[i].id \notin Live'
                       /\ cmds[i].id \notin DOMAIN credits'
        /\ Live' # Live => ApplyStep
        /\ ApplyStep =>
              /\ AllRan
              /\ money' = money
              /\ cmds' = <<>>
              /\ \A id \in Live' \ Live :
                    /\ \E i \in DOMAIN cmds : cmds[i].op = "spawn" /\ cmds[i].id = id
                    /\ id \notin DOMAIN credits
                    /\ pigs'[id].acc = 0
                    /\ pigs'[id].elapsed = 0
                    /\ ~pigs'[id].finished
                    /\ credits'[id] = 0
              /\ \A id \in Live \ Live' :
                    /\ pigs[id].finished
                    /\ credits[id] = 1
                    /\ despawns'[id] = 1
              /\ \A id \in Live \cap Live' : ~pigs[id].finished
        /\ \A id \in DOMAIN despawns : despawns[id] >= 1 => id \notin Live'
    ]_vars

\* The Spawner ran before the sweep in a frame long enough to expire any
\* pig: the sweep sold the older pig and left the one just bought alone.
C12_Witness ==
    /\ inFrame
    /\ AllRan
    /\ delta >= MainPigLifetime
    /\ spentLogs = 2
    /\ soldLogs = 1
    /\ money = StartMoney
    /\ Len(cmds) >= 2
    /\ cmds[1].op = "spawn"
    /\ cmds[1].id \notin Live
    /\ cmds[Len(cmds)].op = "despawn"
    /\ cmds[Len(cmds)].id \in Live

=============================================================================
